---- MODULE Spec2Model ----
(***************************************************************************)
(* A model of genuprimer (src/genuprimer.py): the region geometry computed *)
(* by validate_options, the significance evaluation is_significant, the    *)
(* classification of one bowtie record pair by parse_bowtie_result, and    *)
(* the run of main() from the command line to the report.                  *)
(*                                                                         *)
(* Python values are encoded so that TLC can compare them:                 *)
(*   - an optional integer (None or an int) is <<>> or <<v>>;              *)
(*   - a tuple/list of integers is a sequence, () and [] are <<>>;         *)
(*   - an identifier that is tested by prefix is a sequence of characters. *)
(***************************************************************************)
EXTENDS Integers, Sequences, FiniteSets, TLC

VARIABLES
    pc,                           \* position of main(): which step runs next
    args,                         \* argparse.Namespace (the fields modelled)
    config,                       \* the [default] section of the config file
    CONFIG_REGION_KEYS,           \* genuprimer.py:23
    primer3_product_size,         \* genuprimer.py:28
    primer3_insert_pos,           \* genuprimer.py:30
    bowtie_parse_options,         \* genuprimer.py:32
    primer3_pair_ok_region_list,  \* genuprimer.py:39
    sequence_included_region,     \* genuprimer.py:41
    exit_status,                  \* <<>> while running, <<1>> after sys.exit(1)
    mismatch,                     \* the mismatch encoding (MD:Z) under evaluation
    values,                       \* is_significant: the token list evaluated
    significant,                  \* is_significant: its outcome
    primer_tuple,                 \* parse_bowtie_result: the record pair
    primer_dict,                  \* the pair registry
    runtime_parameters,           \* genuprimer.py:44 (the fields modelled)
    parsed,                       \* parse_bowtie_result: its outcome
    engine,                       \* what primer3 designPrimers returns in this run
    design_request,               \* what generate_primer handed to primer3
    created,                      \* the files and directories that exist
    primer3_section,              \* the [primer3] section of the config file
    primer3_options,              \* genuprimer.py:37
    invoked,                      \* the external tools called so far, in order
    aligner,                      \* what bowtie does in this run: status and output
    bowtie_result,                \* main: the record pairs run_bowtie returned
    cursor,                       \* main: the record pair the loop is at
    results,                      \* main: the rows collected per pair key
    report                        \* the lines written to the output

vars == <<pc, args, config, CONFIG_REGION_KEYS, primer3_product_size, primer3_insert_pos,
          bowtie_parse_options, primer3_pair_ok_region_list,
          sequence_included_region, exit_status, mismatch, values, significant,
          primer_tuple, primer_dict, runtime_parameters, parsed, engine,
          design_request, created, primer3_section, primer3_options, invoked,
          aligner, bowtie_result, cursor, results, report>>

\* what main() reads and writes once the primers are designed
pipelineVars == <<aligner, bowtie_result, cursor, results, report>>

(***************************************************************************)
(* Bounds of the model.                                                    *)
(***************************************************************************)
\* coordinates and sizes given on the command line or in the config: 0..MaxCoord
MaxCoord == 2

None == <<>>
Some(v) == <<v>>

\* Python truthiness of None-or-int: None and 0 are falsy.
Falsy(opt) == opt = None \/ opt[1] = 0

(***************************************************************************)
(* Module-level state, genuprimer.py:23-41.                                *)
(***************************************************************************)
LAST_MUST_MATCH_DEFAULT == 3
LAST_TO_CHECK_DEFAULT == 12
LAST_MAX_ERROR_DEFAULT == 5
LIMIT_NUMBER_OF_MATCHES_DEFAULT == 5

DefaultRegionKeys ==
    [TARGET_POSITION_BEGIN |-> None, TARGET_POSITION_END |-> None,
     PRIMER_PRODUCT_SIZE_MIN |-> None, PRIMER_PRODUCT_SIZE_MAX |-> None]

DefaultParseOptions ==
    [LAST_MUST_MATCH |-> LAST_MUST_MATCH_DEFAULT,
     LAST_TO_CHECK |-> LAST_TO_CHECK_DEFAULT,
     LAST_MAX_ERROR |-> LAST_MAX_ERROR_DEFAULT,
     LIMIT_NUMBER_OF_MATCHES |-> LIMIT_NUMBER_OF_MATCHES_DEFAULT]

\* lines 44-53: seq_id '', additional_fasta None (kept as "a file was given"),
\* index 'bowtie-index', keep_primer False
DefaultRuntimeParameters ==
    [seq_id |-> <<>>, additional_fasta |-> FALSE, keep_primer |-> FALSE,
     index |-> Some("bowtie-index")]

\* bowtie has nothing to do in this run
NoAligner == [status |-> 0, output |-> <<>>]

\* parse_bowtie_result has not been called
NotParsed == [outcome |-> "pending", key |-> <<>>, res |-> <<>>]

RegionKeyNames == {"TARGET_POSITION_BEGIN", "TARGET_POSITION_END",
                   "PRIMER_PRODUCT_SIZE_MIN", "PRIMER_PRODUCT_SIZE_MAX"}

OptionKeyNames == {"LAST_MUST_MATCH", "LAST_TO_CHECK", "LAST_MAX_ERROR",
                   "LIMIT_NUMBER_OF_MATCHES"}

(***************************************************************************)
(* Inputs of a run.  A key of the [default] config section is absent, or   *)
(* holds text that is not a number, or holds an integer.                   *)
(***************************************************************************)
Absent == [kind |-> "absent", int |-> 0]
NotANumber == [kind |-> "text", int |-> 0]
Number(v) == [kind |-> "int", int |-> v]

Coord == 0..MaxCoord

\* the end-to-end scenario of the specification: --pos 100 150 --size 200 300
ScenarioPos == <<100, 150>>
ScenarioSize == <<200, 300>>

ConfigValues == {Absent, NotANumber} \cup {Number(v) : v \in Coord}

\* argparse nargs=2, type=int: None or a list of two integers
PosArgs == {None, ScenarioPos} \cup (Coord \X Coord)
SizeArgs == {None, ScenarioSize} \cup (Coord \X Coord)

NoOptionArgs ==
    [LAST_MUST_MATCH |-> None, LAST_TO_CHECK |-> None,
     LAST_MAX_ERROR |-> None, LIMIT_NUMBER_OF_MATCHES |-> None]

\* a command line that gives the FASTA file and nothing else
NoArgs ==
    [size |-> None, pos |-> None, options |-> NoOptionArgs, seq_id |-> <<>>,
     additional_fasta |-> FALSE, keep_primer |-> FALSE, index |-> None,
     primer3 |-> <<>>]

(***************************************************************************)
(* parse_config_and_parameters, genuprimer.py:177-278.                     *)
(***************************************************************************)
\* lines 187-200: section.getint succeeds, or ValueError keeps the current value;
\* a key that is not in the section is not visited
OptionFromConfig(current, cv) ==
    IF cv.kind = "int" THEN cv.int ELSE current

\* lines 204-214: as above; on ValueError the value is CONFIG_REGION_KEYS[key]
RegionKeyFromConfig(current, cv) ==
    IF cv.kind = "int" THEN Some(cv.int) ELSE current

\* lines 240-242: "if args[key]:" - None and 0 leave the option alone
OptionFromArgs(current, arg) ==
    IF Falsy(arg) THEN current ELSE arg[1]

\* lines 246-248 and 252-254: "if args['size']:" - a list of two is truthy
TupleFromArgs(current, arg) ==
    IF arg = None THEN current ELSE arg

\* lines 258-260: "if key in args.keys() and args[key]:" for the keys of
\* runtime_parameters; '', None and False leave the parameter alone
RuntimeParametersFromArgs(current, a) ==
    [seq_id |-> IF a.seq_id = <<>> THEN current.seq_id ELSE a.seq_id,
     additional_fasta |-> IF a.additional_fasta THEN TRUE
                          ELSE current.additional_fasta,
     keep_primer |-> IF a.keep_primer THEN TRUE ELSE current.keep_primer,
     index |-> IF a.index = None THEN current.index ELSE a.index]

\* ast.literal_eval on the texts used as primer3 values: a Python value, kept
\* as its type and its items, or SyntaxError/ValueError
LiteralEval(text) ==
    CASE text = "20" -> [ok |-> TRUE, type |-> "int", items |-> <<20>>]
      [] text = "22" -> [ok |-> TRUE, type |-> "int", items |-> <<22>>]
      [] text = "[1, 2]" -> [ok |-> TRUE, type |-> "list", items |-> <<1, 2>>]
      [] text = "[0, 1]" -> [ok |-> TRUE, type |-> "list", items |-> <<0, 1>>]
      [] OTHER -> [ok |-> FALSE, type |-> "error", items |-> <<>>]

\* the Python value of a list of integers
ListValue(items) == [type |-> "list", items |-> items]

\* dict.update({k: v})
Update(dict, k, v) ==
    [x \in DOMAIN dict \cup {k} |-> IF x = k THEN v ELSE dict[x]]

\* a primer3 option key as it is spelled: its name, and whether it is
\* written in upper case; str.upper() of line 229
OptionKey(name, upper) == [name |-> name, upper |-> upper]
Upper(key) == [key EXCEPT !.upper = TRUE]

\* lines 221-233 (upper: the key is upper-cased) and 266-277 (the key is
\* taken as given): every (key, text) in order; a text that literal_eval
\* rejects is skipped with a warning
RECURSIVE UpdateFromTexts(_, _, _)
UpdateFromTexts(dict, pairs, upper) ==
    IF pairs = <<>> THEN dict
    ELSE LET value == LiteralEval(Head(pairs)[2])
             key == IF upper THEN Upper(Head(pairs)[1]) ELSE Head(pairs)[1]
         IN  UpdateFromTexts(IF value.ok
                             THEN Update(dict, key,
                                         [type |-> value.type, items |-> value.items])
                             ELSE dict,
                             Tail(pairs), upper)

ParseConfigAndParameters ==
    /\ pc = "parse"
    /\ primer3_options' =
           UpdateFromTexts(UpdateFromTexts(primer3_options, primer3_section, TRUE),
                           args.primer3, FALSE)
    /\ runtime_parameters' = RuntimeParametersFromArgs(runtime_parameters, args)
    /\ CONFIG_REGION_KEYS' =
           [k \in RegionKeyNames |-> RegionKeyFromConfig(CONFIG_REGION_KEYS[k], config[k])]
    /\ bowtie_parse_options' =
           [k \in OptionKeyNames |->
               OptionFromArgs(OptionFromConfig(bowtie_parse_options[k], config[k]),
                              args.options[k])]
    /\ primer3_product_size' = TupleFromArgs(primer3_product_size, args.size)
    /\ primer3_insert_pos' = TupleFromArgs(primer3_insert_pos, args.pos)
    /\ pc' = "validate"
    /\ UNCHANGED <<args, config, primer3_pair_ok_region_list,
                   sequence_included_region, exit_status>>
    /\ UNCHANGED <<mismatch, values, significant, primer_tuple, primer_dict,
                   parsed, engine, design_request, created, primer3_section,
                   invoked>>
    /\ UNCHANGED pipelineVars

(***************************************************************************)
(* validate_options, genuprimer.py:281-352.                                *)
(***************************************************************************)
\* lines 806-815: 'bowtie-index/<name of the FASTA file>_bowtie'
IndexDirectory == "bowtie-index/"
DefaultIndex == "bowtie-index/fasta_bowtie"
DefaultIndexFile == "bowtie-index/fasta_bowtie.1.ebwt"

\* lines 286-300: the index named on the command line is kept; otherwise the
\* default location is used when an index is found there, and None is left
IndexAfterValidate(index, files) ==
    IF index = Some("bowtie-index")
    THEN IF DefaultIndexFile \in files THEN Some(DefaultIndex) ELSE None
    ELSE index

\* line 809, reached through line 287: os.makedirs(bowtie_index_dir)
FilesAfterValidate(index, files) ==
    IF index = Some("bowtie-index") THEN files \cup {IndexDirectory} ELSE files

\* lines 306-307 and 317-318: "not a or not b" on two config values
ConfigPairMissing(a, b) == Falsy(a) \/ Falsy(b)

\* a slip the check could make: equal sizes let through
SizeRangeInvalidStrict(size) == size[1] > size[2]

\* line 313
SizeRangeInvalid(size) == size[1] >= size[2]

\* line 324
PosRangeInvalid(pos) == pos[1] >= pos[2]

\* line 327
InsertTooLarge(pos, size) == pos[2] - pos[1] > size[1]

\* a slip the solver could make: the left window placed from the target's begin
PairOkRegionListFromBegin(pos, size) ==
    << pos[1] - size[2],
       size[2] - (pos[2] - pos[1]),
       pos[2],
       size[2] - (pos[2] - pos[1]) >>

\* a slip the solver could make: the overlap taken from the minimal product size
PairOkRegionListFromMinSize(pos, size) ==
    << pos[2] - size[2],
       size[1] - (pos[2] - pos[1]),
       pos[2],
       size[1] - (pos[2] - pos[1]) >>

\* lines 333-345
PairOkRegionList(pos, size) ==
    << pos[2] - size[2],
       size[2] - (pos[2] - pos[1]),
       pos[2],
       size[2] - (pos[2] - pos[1]) >>

\* lines 347-352
SequenceIncludedRegion(pos, ok_region_list) ==
    << ok_region_list[1], pos[2] + ok_region_list[4] >>

\* the outcome of validate_options from the globals it reads: whether it called
\* sys.exit(1), and the globals as it leaves them
ValidateOutcome(size0, pos0, keys) ==
    LET sizeMissing == size0 = <<>> /\
                       ConfigPairMissing(keys.PRIMER_PRODUCT_SIZE_MIN,
                                         keys.PRIMER_PRODUCT_SIZE_MAX)
        size1 == IF size0 = <<>>
                 THEN <<keys.PRIMER_PRODUCT_SIZE_MIN[1], keys.PRIMER_PRODUCT_SIZE_MAX[1]>>
                 ELSE size0
        posMissing == pos0 = <<>> /\
                      ConfigPairMissing(keys.TARGET_POSITION_BEGIN,
                                        keys.TARGET_POSITION_END)
        pos1 == IF pos0 = <<>>
                THEN <<keys.TARGET_POSITION_BEGIN[1], keys.TARGET_POSITION_END[1]>>
                ELSE pos0
        Exit(s, p) == [exit |-> TRUE, size |-> s, pos |-> p,
                       ok_region_list |-> <<>>, included_region |-> <<>>]
        okl == PairOkRegionList(pos1, size1)
    IN  IF sizeMissing THEN Exit(size0, pos0)
        ELSE IF SizeRangeInvalid(size1) THEN Exit(size1, pos0)
        ELSE IF posMissing THEN Exit(size1, pos0)
        ELSE IF PosRangeInvalid(pos1) THEN Exit(size1, pos1)
        ELSE IF InsertTooLarge(pos1, size1) THEN Exit(size1, pos1)
        ELSE [exit |-> FALSE, size |-> size1, pos |-> pos1,
              ok_region_list |-> okl,
              included_region |-> SequenceIncludedRegion(pos1, okl)]

ValidateOptions ==
    /\ pc = "validate"
    /\ runtime_parameters' =
           [runtime_parameters EXCEPT
               !.index = IndexAfterValidate(runtime_parameters.index, created)]
    /\ created' = FilesAfterValidate(runtime_parameters.index, created)
    /\ LET out == ValidateOutcome(primer3_product_size, primer3_insert_pos,
                                  CONFIG_REGION_KEYS)
       IN  /\ primer3_product_size' = out.size
           /\ primer3_insert_pos' = out.pos
           /\ primer3_pair_ok_region_list' =
                  IF out.exit THEN primer3_pair_ok_region_list ELSE out.ok_region_list
           /\ sequence_included_region' =
                  IF out.exit THEN sequence_included_region ELSE out.included_region
           /\ exit_status' = IF out.exit THEN Some(1) ELSE exit_status
           /\ pc' = IF out.exit THEN "exit" ELSE "validated"
    /\ UNCHANGED <<args, config, CONFIG_REGION_KEYS, bowtie_parse_options>>
    /\ UNCHANGED <<mismatch, values, significant, primer_tuple, primer_dict,
                   parsed, engine, design_request, primer3_section,
                   primer3_options, invoked>>
    /\ UNCHANGED pipelineVars

(***************************************************************************)
(* generate_primer, genuprimer.py:895-992.  The design engine is a black   *)
(* box: `engine` is the list of primer pairs it returns, pair number n     *)
(* under the keys PRIMER_LEFT_n_SEQUENCE and PRIMER_RIGHT_n_SEQUENCE.      *)
(***************************************************************************)
LeftName(n) == [side |-> "LEFT", num |-> n]
RightName(n) == [side |-> "RIGHT", num |-> n]

\* Python's order on the strings PRIMER_LEFT_n_SEQUENCE and
\* PRIMER_RIGHT_n_SEQUENCE (n a single digit): 'L' < 'R', then the digit
NameLeq(a, b) ==
    IF a.side # b.side THEN a.side = "LEFT" ELSE a.num <= b.num

\* a slip the key could make: the two names in the order given
UnsortedPair(x, y) == <<x, y>>

\* tuple(sorted((x, y))), lines 746 and 986
SortedPair(x, y) == IF NameLeq(x, y) THEN <<x, y>> ELSE <<y, x>>

\* lines 972-987: the registry, keyed by the sorted pair of names
BuildPrimerDict(pairs) ==
    [key \in {SortedPair(LeftName(n - 1), RightName(n - 1)) : n \in 1..Len(pairs)} |->
        LET n == CHOOSE m \in 1..Len(pairs) :
                     key = SortedPair(LeftName(m - 1), RightName(m - 1))
        IN  <<pairs[n].left, pairs[n].right>>]

\* lines 937-939: SEQUENCE_INCLUDED_REGION is passed as [start, length]
IncludedRegionParameter(region) == <<region[1], region[2] - region[1]>>

\* lines 959-962: '{prefix}_left.fas' and '{prefix}_right.fas'
PrimerFiles == {"genuprimer_left.fas", "genuprimer_right.fas"}

NoRequest ==
    [PRIMER_PRODUCT_SIZE_RANGE |-> <<>>,
     SEQUENCE_PRIMER_PAIR_OK_REGION_LIST |-> <<>>,
     SEQUENCE_INCLUDED_REGION |-> <<>>,
     P3Globals |-> <<>>]

\* str.startswith on identifiers kept as sequences of characters
StartsWith(str, prefix) ==
    /\ Len(prefix) <= Len(str)
    /\ SubSeq(str, 1, Len(prefix)) = prefix

\* the FASTA files of a run hold one sequence each: its id
Chr == <<"c", "h", "r">>
AdditionalId == <<"a", "d", "d">>
FastaId(additional) == IF additional THEN AdditionalId ELSE Chr

\* lines 1083-1114 on a file with one sequence: without a prefix the first
\* header is taken; with one, the header that starts with it, or '' and no
\* sequence when there is none
ParseFasta(additional, seq_id) ==
    IF seq_id = <<>> \/ StartsWith(FastaId(additional), seq_id)
    THEN [found |-> TRUE, seq_id |-> FastaId(additional)]
    ELSE [found |-> FALSE, seq_id |-> <<>>]

\* main, lines 387-413: the template sequence and its exact id are read
\* from the FASTA file, or the run ends
ExtractSequence ==
    /\ pc = "validated"
    /\ ~runtime_parameters.keep_primer
    /\ LET out == ParseFasta(runtime_parameters.additional_fasta,
                             runtime_parameters.seq_id)
       IN  /\ runtime_parameters' = [runtime_parameters EXCEPT !.seq_id = out.seq_id]
           /\ exit_status' = IF out.found THEN exit_status ELSE Some(1)
           /\ pc' = IF out.found THEN "extracted" ELSE "exit"
    /\ UNCHANGED <<args, config, CONFIG_REGION_KEYS, primer3_product_size,
                   primer3_insert_pos, bowtie_parse_options,
                   primer3_pair_ok_region_list, sequence_included_region,
                   mismatch, values, significant, primer_tuple, primer_dict,
                   parsed, engine, design_request, created, primer3_section,
                   primer3_options, invoked>>
    /\ UNCHANGED pipelineVars

\* lines 919-925: the product size range replaces the option of that name
OptionsForEngine(options, size) ==
    Update(options, OptionKey("PRIMER_PRODUCT_SIZE_RANGE", TRUE), ListValue(size))

GeneratePrimer ==
    /\ pc = "extracted"
    /\ primer3_options' = OptionsForEngine(primer3_options, primer3_product_size)
    /\ invoked' = Append(invoked, "primer3")
    /\ design_request' =
           [PRIMER_PRODUCT_SIZE_RANGE |-> primer3_product_size,
            SEQUENCE_PRIMER_PAIR_OK_REGION_LIST |-> primer3_pair_ok_region_list,
            SEQUENCE_INCLUDED_REGION |->
                IncludedRegionParameter(sequence_included_region),
            P3Globals |-> primer3_options']
    /\ primer_dict' = BuildPrimerDict(engine)
    /\ created' = created \cup PrimerFiles
    /\ pc' = "designed"
    /\ UNCHANGED <<args, config, CONFIG_REGION_KEYS, primer3_product_size,
                   primer3_insert_pos, bowtie_parse_options,
                   primer3_pair_ok_region_list, sequence_included_region,
                   exit_status, mismatch, values, significant, primer_tuple,
                   runtime_parameters, parsed, engine, primer3_section>>
    /\ UNCHANGED pipelineVars

\* primer sequences the engine may return
ShortPrimer == <<"A", "C">>
LongPrimer == <<"A", "C", "G", "T">>

OnePair == << [left |-> LongPrimer, right |-> ShortPrimer] >>
TwoPairs == << [left |-> ShortPrimer, right |-> LongPrimer],
               [left |-> LongPrimer, right |-> ShortPrimer] >>

(***************************************************************************)
(* The region solver: one run of main() up to the call of the design       *)
(* engine.                                                                 *)
(***************************************************************************)
RegionEngineResults == {OnePair}

RegionConfigs ==
    { [k \in RegionKeyNames \cup OptionKeyNames |->
          IF k \in RegionKeyNames THEN r[k] ELSE Absent] :
      r \in [RegionKeyNames -> ConfigValues] }

RegionArgs ==
    { [size |-> s, pos |-> p, options |-> NoOptionArgs, seq_id |-> <<>>,
       additional_fasta |-> FALSE, keep_primer |-> FALSE, index |-> None,
       primer3 |-> <<>>] :
      s \in SizeArgs, p \in PosArgs }

InitRegion ==
    /\ pc = "parse"
    /\ args \in RegionArgs
    /\ config \in RegionConfigs
    /\ CONFIG_REGION_KEYS = DefaultRegionKeys
    /\ primer3_product_size = <<>>
    /\ primer3_insert_pos = <<>>
    /\ bowtie_parse_options = DefaultParseOptions
    /\ primer3_pair_ok_region_list = <<>>
    /\ sequence_included_region = <<>>
    /\ exit_status = None
    /\ mismatch = <<>>
    /\ values = <<>>
    /\ significant = "pending"
    /\ primer_tuple = <<>>
    /\ primer_dict = <<>>
    /\ runtime_parameters = DefaultRuntimeParameters
    /\ created = {}
    /\ primer3_section = <<>>
    /\ primer3_options = <<>>
    /\ invoked = <<>>
    /\ aligner = NoAligner
    /\ bowtie_result = <<>>
    /\ cursor = 1
    /\ results = <<>>
    /\ report = <<>>
    /\ parsed = NotParsed
    /\ engine \in RegionEngineResults
    /\ design_request = NoRequest

NextRegion ==
    \/ ParseConfigAndParameters
    \/ ValidateOptions
    \/ ExtractSequence
    \/ GeneratePrimer

SpecRegion == InitRegion /\ [][NextRegion]_vars

(***************************************************************************)
(* The mismatch encoding and its tokens, genuprimer.py:716-738.            *)
(* The encoding of an aligned read (the third colon-separated part of      *)
(* field 12, MD:Z) is a number, then a letter and a number for every       *)
(* mismatch: "0A0A1A2A2A3".  It is modelled as the list of its numbers,    *)
(* <<0, 0, 1, 2, 2, 3>>; a mismatch letter stands between two neighbours.  *)
(***************************************************************************)
DigitToken(n) == [isdigit |-> TRUE, int |-> n]
AlphaToken == [isdigit |-> FALSE, int |-> 0]

\* lines 722-723: re.split('(\d+)', ...) yields '' , the numbers and the
\* letters in turn, '' at both ends
RECURSIVE ReSplit(_)
ReSplit(runs) ==
    IF Len(runs) = 0 THEN <<>>
    ELSE IF Len(runs) = 1 THEN <<DigitToken(runs[1])>>
    ELSE <<DigitToken(runs[1]), AlphaToken>> \o ReSplit(Tail(runs))

\* lines 725-734: '' and '0' carry no information
remove_empty_mismatch(x) == ~(x.isdigit /\ x.int = 0)

\* lines 737-738: list(filter(remove_empty_mismatch, ...))
Filter(tokens) == SelectSeq(tokens, remove_empty_mismatch)

Tokens(runs) == Filter(ReSplit(runs))

(***************************************************************************)
(* is_significant, genuprimer.py:654-707.  Its outcome is "True", "False"  *)
(* or "IndexError" (values[-i] read before the start of the list).         *)
(***************************************************************************)
\* values[-i]
FromEnd(vals, i) == vals[Len(vals) - i + 1]

\* a slip the walk could make: it stops once last_to_check bases are passed
RECURSIVE WalkExclusive(_, _, _, _, _)
WalkExclusive(vals, i, number_of_subs, bases_processed, last_to_check) ==
    IF bases_processed < last_to_check
    THEN IF i > Len(vals)
         THEN [error |-> TRUE, number_of_subs |-> number_of_subs,
               bases_processed |-> bases_processed, i |-> i]
         ELSE IF FromEnd(vals, i).isdigit
              THEN WalkExclusive(vals, i + 1, number_of_subs,
                        bases_processed + FromEnd(vals, i).int, last_to_check)
              ELSE WalkExclusive(vals, i + 1, number_of_subs + 1,
                        bases_processed + 1, last_to_check)
    ELSE [error |-> FALSE, number_of_subs |-> number_of_subs,
          bases_processed |-> bases_processed, i |-> i]

\* lines 683-696: the walk from the last token toward the first
RECURSIVE Walk(_, _, _, _, _)
Walk(vals, i, number_of_subs, bases_processed, last_to_check) ==
    IF bases_processed <= last_to_check
    THEN IF i > Len(vals)
         THEN [error |-> TRUE, number_of_subs |-> number_of_subs,
               bases_processed |-> bases_processed, i |-> i]
         ELSE IF FromEnd(vals, i).isdigit
              THEN Walk(vals, i + 1, number_of_subs,
                        bases_processed + FromEnd(vals, i).int, last_to_check)
              ELSE Walk(vals, i + 1, number_of_subs + 1,
                        bases_processed + 1, last_to_check)
    ELSE [error |-> FALSE, number_of_subs |-> number_of_subs,
          bases_processed |-> bases_processed, i |-> i]

\* a slip the comparison could make: a terminal run equal to the bound fails
TrailingRunTooShortInclusive(vals, options) ==
    FromEnd(vals, 1).int <= options.LAST_MUST_MATCH

\* line 658
TrailingRunTooShort(vals, options) ==
    FromEnd(vals, 1).int < options.LAST_MUST_MATCH

\* a slip the test could make: a trailing mismatch fails for every bound
TrailingMismatchFailsAlways(vals, options) ==
    ~FromEnd(vals, 1).isdigit

\* lines 670-671
TrailingMismatchFails(vals, options) ==
    ~FromEnd(vals, 1).isdigit /\ options.LAST_MUST_MATCH # 0

\* lines 697-707
FewEnoughSubs(number_of_subs, options) ==
    number_of_subs < options.LAST_MAX_ERROR

\* which return statement ends is_significant, and what it returns
SignificanceDecision(vals, options) ==
    IF Len(vals) = 0
    THEN [by |-> "empty", result |-> "IndexError"]
    ELSE IF FromEnd(vals, 1).isdigit /\ TrailingRunTooShort(vals, options)
    THEN [by |-> "last_must_match", result |-> "False"]
    ELSE IF FromEnd(vals, 1).isdigit /\ Len(vals) = 1
    THEN [by |-> "single", result |-> "True"]
    ELSE IF ~FromEnd(vals, 1).isdigit /\ TrailingMismatchFails(vals, options)
    THEN [by |-> "last_is_mismatch", result |-> "False"]
    ELSE LET w == Walk(vals, 1, 0, 0, options.LAST_TO_CHECK)
         IN  IF w.error
             THEN [by |-> "walk", result |-> "IndexError"]
             ELSE [by |-> "walk",
                   result |-> IF FewEnoughSubs(w.number_of_subs, options)
                              THEN "True" ELSE "False"]

is_significant(vals, options) == SignificanceDecision(vals, options).result

(***************************************************************************)
(* The evaluator on its own: a mismatch encoding and thresholds are drawn, *)
(* the encoding is split into tokens and is_significant is applied.        *)
(***************************************************************************)
\* the longest encoding has MaxRuns numbers, MaxRuns - 1 mismatches
MaxRuns == 6

RunLengths == 0..3

Encodings == UNION { [1..n -> RunLengths] : n \in 1..MaxRuns }

SigOptions ==
    { [LAST_MUST_MATCH |-> m, LAST_TO_CHECK |-> c, LAST_MAX_ERROR |-> e,
       LIMIT_NUMBER_OF_MATCHES |-> LIMIT_NUMBER_OF_MATCHES_DEFAULT] :
      m \in {0, LAST_MUST_MATCH_DEFAULT, 5},
      c \in {2, LAST_TO_CHECK_DEFAULT},
      e \in {1, LAST_MAX_ERROR_DEFAULT} }

InitSig ==
    /\ pc = "tokenize"
    /\ args = NoArgs
    /\ config = [k \in RegionKeyNames \cup OptionKeyNames |-> Absent]
    /\ CONFIG_REGION_KEYS = DefaultRegionKeys
    /\ primer3_product_size = <<>>
    /\ primer3_insert_pos = <<>>
    /\ bowtie_parse_options \in SigOptions
    /\ primer3_pair_ok_region_list = <<>>
    /\ sequence_included_region = <<>>
    /\ exit_status = None
    /\ mismatch \in Encodings
    /\ values = <<>>
    /\ significant = "pending"
    /\ primer_tuple = <<>>
    /\ primer_dict = <<>>
    /\ runtime_parameters = DefaultRuntimeParameters
    /\ created = {}
    /\ primer3_section = <<>>
    /\ primer3_options = <<>>
    /\ invoked = <<>>
    /\ aligner = NoAligner
    /\ bowtie_result = <<>>
    /\ cursor = 1
    /\ results = <<>>
    /\ report = <<>>
    /\ parsed = NotParsed
    /\ engine = <<>>
    /\ design_request = NoRequest

\* lines 722-738 for one side of the pair
Tokenize ==
    /\ pc = "tokenize"
    /\ values' = Tokens(mismatch)
    /\ pc' = "evaluate"
    /\ UNCHANGED <<args, config, CONFIG_REGION_KEYS, primer3_product_size,
                   primer3_insert_pos, bowtie_parse_options,
                   primer3_pair_ok_region_list, sequence_included_region,
                   exit_status, mismatch, significant, primer_tuple, primer_dict,
                   runtime_parameters, parsed, engine, design_request, created,
                   primer3_section, primer3_options, invoked>>
    /\ UNCHANGED pipelineVars

\* one call of is_significant
IsSignificant ==
    /\ pc = "evaluate"
    /\ significant' = is_significant(values, bowtie_parse_options)
    /\ pc' = "evaluated"
    /\ UNCHANGED <<args, config, CONFIG_REGION_KEYS, primer3_product_size,
                   primer3_insert_pos, bowtie_parse_options,
                   primer3_pair_ok_region_list, sequence_included_region,
                   exit_status, mismatch, values, primer_tuple, primer_dict,
                   runtime_parameters, parsed, engine, design_request, created,
                   primer3_section, primer3_options, invoked>>
    /\ UNCHANGED pipelineVars

NextSig == Tokenize \/ IsSignificant

SpecSig == InitSig /\ [][NextSig]_vars

(***************************************************************************)
(* parse_bowtie_result, genuprimer.py:626-795.  A line of the aligner is   *)
(* the record of the fields the function reads: nfields is                 *)
(* len(line.split()), name field 0, ref field 2, pos field 3, pnext field  *)
(* 7, tlen field 8 and md the mismatch encoding of field 12.               *)
(***************************************************************************)
\* a slip the test could make: a line of 12 fields let through
TooShortExclusive(line) == line.nfields < 12

\* line 711
TooShort(line) == line.nfields <= 12

\* lines 768-769 and 778-779: region[0] <= int(infos[3]) <= int(infos[7]) <= region[1]
InsideRegion(infos, region) ==
    /\ region[1] <= infos.pos
    /\ infos.pos <= infos.pnext
    /\ infos.pnext <= region[2]

\* a slip the rule could make: preset primers compared by equality too
ExpectedHitExactOnly(infos, region, additional, id, keep) ==
    IF additional THEN FALSE
    ELSE InsideRegion(infos, region) /\ infos.ref = id

\* a slip the rule could make: the additional source not looked at
ExpectedHitIgnoringSource(infos, region, additional, id, keep) ==
    IF keep
    THEN InsideRegion(infos, region) /\ StartsWith(infos.ref, id)
    ELSE InsideRegion(infos, region) /\ infos.ref = id

\* lines 750-779
ExpectedHit(infos, region, additional, id, keep) ==
    IF additional THEN FALSE
    ELSE IF keep
    THEN InsideRegion(infos, region) /\ StartsWith(infos.ref, id)
    ELSE InsideRegion(infos, region) /\ infos.ref = id

\* a slip the format could make: the forward primer's length added
StopWithForwardLength(infos, current_pair) == infos.pnext + Len(current_pair[1])

\* line 790
Stop(infos, current_pair) == infos.pnext + Len(current_pair[2])

\* lines 782-792: the csv line, kept as the record of its fields
FormatResult(left_name, right_name, infos, current_pair, expected_hit) ==
    [FWD_ID |-> left_name, REV_ID |-> right_name, MATCH_ID |-> infos.ref,
     FWD |-> current_pair[1], REV |-> current_pair[2],
     START |-> infos.pos, STOP |-> Stop(infos, current_pair),
     LENGTH |-> infos.tlen, EXP |-> IF expected_hit THEN 1 ELSE 0]

\* a slip the test could make: one significant side is enough
EitherSignificant(left_res, right_res, options) ==
    IF is_significant(left_res, options) = "True" THEN "True"
    ELSE IF is_significant(left_res, options) = "IndexError" THEN "IndexError"
    ELSE is_significant(right_res, options)

\* line 741: "is_significant(left_res) and is_significant(right_res)"; the
\* right side is evaluated only when the left side is True
BothSignificant(left_res, right_res, options) ==
    IF is_significant(left_res, options) = "True"
    THEN is_significant(right_res, options)
    ELSE is_significant(left_res, options)

\* a slip the lookup could make: a pair made up for a name that is unknown
GetOrEmptyPair(dict, key) ==
    IF key \in DOMAIN dict THEN Some(dict[key]) ELSE Some(<<<<>>, <<>>>>)

\* line 748: primer_dict.get(current_dict_key), None for a key that is absent
Get(dict, key) ==
    IF key \in DOMAIN dict THEN Some(dict[key]) ELSE None

\* a slip the call could make: with preset primers the two names are looked
\* up in the order the lines come in
ParseBowtieResultPresetUnsorted(tuple, dict, region, additional, id, keep, options) ==
    IF TooShort(tuple[1]) \/ TooShort(tuple[2])
    THEN [outcome |-> "None", key |-> <<>>, res |-> <<>>]
    ELSE LET left_split == tuple[1]
             right_split == tuple[2]
             both == BothSignificant(Tokens(left_split.md), Tokens(right_split.md),
                                     options)
             current_dict_key ==
                 IF keep THEN <<left_split.name, right_split.name>>
                 ELSE SortedPair(left_split.name, right_split.name)
             current_pair == Get(dict, current_dict_key)
         IN  IF both = "IndexError"
             THEN [outcome |-> "IndexError", key |-> <<>>, res |-> <<>>]
             ELSE IF both = "False"
             THEN [outcome |-> "None", key |-> <<>>, res |-> <<>>]
             ELSE IF current_pair = None
             THEN [outcome |-> "TypeError", key |-> <<>>, res |-> <<>>]
             ELSE [outcome |-> "hit",
                   key |-> current_dict_key,
                   res |-> << FormatResult(left_split.name, right_split.name,
                                 left_split, current_pair[1],
                                 ExpectedHit(left_split, region, additional, id,
                                             keep)) >>]

\* the outcome of one call: (None, None), a hit, or the exception raised
ParseBowtieResult(tuple, dict, region, additional, id, keep, options) ==
    IF TooShort(tuple[1]) \/ TooShort(tuple[2])
    THEN [outcome |-> "None", key |-> <<>>, res |-> <<>>]
    ELSE LET left_split == tuple[1]
             right_split == tuple[2]
             left_res == Tokens(left_split.md)
             right_res == Tokens(right_split.md)
             both == BothSignificant(left_res, right_res, options)
             infos == left_split
             current_dict_key == SortedPair(left_split.name, right_split.name)
             current_pair == Get(dict, current_dict_key)
         IN  IF both = "IndexError"
             THEN [outcome |-> "IndexError", key |-> <<>>, res |-> <<>>]
             ELSE IF both = "False"
             THEN [outcome |-> "None", key |-> <<>>, res |-> <<>>]
             ELSE IF current_pair = None
             THEN \* line 784: current_pair[0] raises on None
                  [outcome |-> "TypeError", key |-> <<>>, res |-> <<>>]
             ELSE [outcome |-> "hit",
                   key |-> current_dict_key,
                   res |-> << FormatResult(left_split.name, right_split.name,
                                 infos, current_pair[1],
                                 ExpectedHit(infos, region, additional, id, keep)) >>]

ParseBowtieResultCall ==
    /\ pc = "classify"
    /\ parsed' = ParseBowtieResult(primer_tuple, primer_dict,
                     sequence_included_region,
                     runtime_parameters.additional_fasta,
                     runtime_parameters.seq_id,
                     runtime_parameters.keep_primer,
                     bowtie_parse_options)
    /\ pc' = "classified"
    /\ UNCHANGED <<args, config, CONFIG_REGION_KEYS, primer3_product_size,
                   primer3_insert_pos, bowtie_parse_options,
                   primer3_pair_ok_region_list, sequence_included_region,
                   exit_status, mismatch, values, significant, primer_tuple,
                   primer_dict, runtime_parameters, engine, design_request, created,
                   primer3_section, primer3_options, invoked>>
    /\ UNCHANGED pipelineVars

(***************************************************************************)
(* The classifier on its own: one record pair, a registry, a window and    *)
(* the run's flags are drawn and parse_bowtie_result is applied.           *)
(***************************************************************************)
\* positions reported by the aligner: 0..MaxPos
MaxPos == 4

Position == 0..MaxPos

\* under the default thresholds: one run (True), a short trailing run
\* (False), tokens that end before the walk does (IndexError)
ClassifyEncodings == { <<20>>, <<5, 1>>, <<2, 3>> }

ReferenceIds == { Chr, <<"c", "h">>, <<"x">> }
SequenceIds == { Chr, <<"c", "h">>, <<>> }

NamePairs == { <<LeftName(0), RightName(0)>>, <<RightName(0), LeftName(0)>>,
               <<LeftName(1), RightName(1)>> }

Registries == { BuildPrimerDict(OnePair), BuildPrimerDict(TwoPairs) }

\* the windows validate_options computes for two accepted configurations
Window(pos, size) == SequenceIncludedRegion(pos, PairOkRegionList(pos, size))
Windows == { Window(<<1, 2>>, <<1, 2>>), Window(<<2, 3>>, <<1, 2>>) }

InsertSizes == { 7, -7 }

\* a line without an alignment: fewer than 13 fields
UnalignedLine(name) ==
    [nfields |-> 12, name |-> name, ref |-> <<"*">>, pos |-> 0, pnext |-> 0,
     tlen |-> 0, md |-> <<>>]

AlignedLine(name, ref, pos, pnext, tlen, md) ==
    [nfields |-> 14, name |-> name, ref |-> ref, pos |-> pos, pnext |-> pnext,
     tlen |-> tlen, md |-> md]

\* the two lines of a pair: the mate's line mirrors pos, pnext and tlen
RecordPairs ==
    { << AlignedLine(n[1], ref, p, q, t, lmd), AlignedLine(n[2], ref, q, p, -t, rmd) >> :
        n \in NamePairs, ref \in ReferenceIds, p \in Position, q \in Position,
        t \in InsertSizes, lmd \in ClassifyEncodings, rmd \in ClassifyEncodings }
    \cup
    { << UnalignedLine(n[1]), AlignedLine(n[2], Chr, 1, 2, 7, <<20>>) >> : n \in NamePairs }
    \cup
    { << AlignedLine(n[1], Chr, 1, 2, 7, <<20>>), UnalignedLine(n[2]) >> : n \in NamePairs }

InitClassify ==
    /\ pc = "classify"
    /\ args = NoArgs
    /\ config = [k \in RegionKeyNames \cup OptionKeyNames |-> Absent]
    /\ CONFIG_REGION_KEYS = DefaultRegionKeys
    /\ primer3_product_size = <<>>
    /\ primer3_insert_pos = <<>>
    /\ bowtie_parse_options = DefaultParseOptions
    /\ primer3_pair_ok_region_list = <<>>
    /\ sequence_included_region \in Windows
    /\ exit_status = None
    /\ mismatch = <<>>
    /\ values = <<>>
    /\ significant = "pending"
    /\ primer_tuple \in RecordPairs
    /\ primer_dict \in Registries
    /\ runtime_parameters \in
           [seq_id : SequenceIds, additional_fasta : BOOLEAN, keep_primer : BOOLEAN,
            index : {Some(DefaultIndex)}]
    \* a design run ends in parse_fasta when no sequence id is found (line 410)
    /\ runtime_parameters.keep_primer \/ runtime_parameters.seq_id # <<>>
    /\ parsed = NotParsed
    /\ engine = <<>>
    /\ design_request = NoRequest
    /\ created = {IndexDirectory, DefaultIndexFile}
    /\ primer3_section = <<>>
    /\ primer3_options = <<>>
    /\ invoked = <<>>
    /\ aligner = NoAligner
    /\ bowtie_result = <<>>
    /\ cursor = 1
    /\ results = <<>>
    /\ report = <<>>

NextClassify == ParseBowtieResultCall

SpecClassify == InitClassify /\ [][NextClassify]_vars

(***************************************************************************)
(* main() after the primers are designed, genuprimer.py:435-489, with      *)
(* setup_bowtie (818-844) and run_bowtie (847-892).  bowtie is a black     *)
(* box: `aligner` is its exit status and the lines of its output as        *)
(* str.split('\n') yields them, the last one the empty string after the    *)
(* final newline.                                                          *)
(***************************************************************************)
\* main, lines 436-446: "if not runtime_parameters['index']:" builds the index
\* at the default location
SetupBowtie ==
    /\ pc = "designed"
    /\ IF runtime_parameters.index = None
       THEN /\ runtime_parameters' =
                   [runtime_parameters EXCEPT !.index = Some(DefaultIndex)]
            /\ created' = created \cup {IndexDirectory, DefaultIndexFile}
            /\ invoked' = Append(invoked, "bowtie-build")
       ELSE UNCHANGED <<runtime_parameters, created, invoked>>
    /\ pc' = "indexed"
    /\ UNCHANGED <<args, config, CONFIG_REGION_KEYS, primer3_product_size,
                   primer3_insert_pos, bowtie_parse_options,
                   primer3_pair_ok_region_list, sequence_included_region,
                   exit_status, mismatch, values, significant, primer_tuple,
                   primer_dict, parsed, engine, design_request, primer3_section,
                   primer3_options>>
    /\ UNCHANGED pipelineVars

\* a slip the grouping could make: a step of one, every line paired with the
\* line after it
ResTupleOverlapping(res) ==
    [k \in 1..(Len(res) - 1) |-> <<res[k], res[k + 1]>>]

\* lines 890-891: [(res[i], res[i + 1]) for i in range(0, len(res) - 1, 2)]
ResTuple(res) ==
    [k \in 1..(Len(res) \div 2) |-> <<res[2 * k - 1], res[2 * k]>>]

\* a slip the call could make: the exit status not looked at
BowtieFailedNever(status) == FALSE

\* lines 873-881: subprocess.check_output raises CalledProcessError when the
\* exit status is not zero
BowtieFailed(status) == status # 0

\* main, line 448, and run_bowtie: one call of bowtie; CalledProcessError
\* ends the run with sys.exit(1)
RunBowtie ==
    /\ pc = "indexed"
    /\ invoked' = Append(invoked, "bowtie")
    /\ IF BowtieFailed(aligner.status)
       THEN /\ exit_status' = Some(1)
            /\ pc' = "exit"
            /\ UNCHANGED bowtie_result
       ELSE /\ bowtie_result' = ResTuple(aligner.output)
            /\ pc' = "aligned"
            /\ UNCHANGED exit_status
    /\ UNCHANGED <<args, config, CONFIG_REGION_KEYS, primer3_product_size,
                   primer3_insert_pos, bowtie_parse_options,
                   primer3_pair_ok_region_list, sequence_included_region,
                   mismatch, values, significant, primer_tuple, primer_dict,
                   runtime_parameters, parsed, engine, design_request, created,
                   primer3_section, primer3_options>>
    /\ UNCHANGED <<aligner, cursor, results, report>>

\* line 466: results.setdefault(current_key, []).append(res)
SetDefaultAppend(dict, key, res) ==
    [k \in DOMAIN dict \cup {key} |->
        IF k = key
        THEN (IF key \in DOMAIN dict THEN Append(dict[key], res) ELSE <<res>>)
        ELSE dict[k]]

\* main, lines 456-468: one iteration of the loop over bowtie_result; an
\* exception raised by parse_bowtie_result is not caught and ends the run
ClassifyRecord ==
    /\ pc = "aligned"
    /\ cursor <= Len(bowtie_result)
    /\ LET out == ParseBowtieResult(bowtie_result[cursor], primer_dict,
                      sequence_included_region,
                      runtime_parameters.additional_fasta,
                      runtime_parameters.seq_id,
                      runtime_parameters.keep_primer,
                      bowtie_parse_options)
       IN  /\ primer_tuple' = bowtie_result[cursor]
           /\ parsed' = out
           /\ IF out.outcome \in {"IndexError", "TypeError"}
              THEN /\ pc' = "crash"
                   /\ exit_status' = Some(1)
                   /\ UNCHANGED <<cursor, results>>
              ELSE /\ results' = IF out.outcome = "hit"
                                 THEN SetDefaultAppend(results, out.key, out.res[1])
                                 ELSE results
                   /\ cursor' = cursor + 1
                   /\ UNCHANGED <<pc, exit_status>>
    /\ UNCHANGED <<args, config, CONFIG_REGION_KEYS, primer3_product_size,
                   primer3_insert_pos, bowtie_parse_options,
                   primer3_pair_ok_region_list, sequence_included_region,
                   mismatch, values, significant, primer_dict,
                   runtime_parameters, engine, design_request, created,
                   primer3_section, primer3_options, invoked>>
    /\ UNCHANGED <<aligner, bowtie_result, report>>

\* Python's order on the keys, tuples of two names
KeyLeq(a, b) ==
    IF a[1] # b[1] THEN NameLeq(a[1], b[1]) ELSE NameLeq(a[2], b[2])

\* sorted(results.keys()), line 473
RECURSIVE SortedKeys(_)
SortedKeys(keys) ==
    IF keys = {} THEN <<>>
    ELSE LET first == CHOOSE a \in keys : \A b \in keys : KeyLeq(a, b)
         IN  <<first>> \o SortedKeys(keys \ {first})

\* a slip the cap could make: a group of exactly the limit dropped too
OverLimitInclusive(matches, limit) == Len(matches) >= limit

\* line 475
OverLimit(matches, limit) == Len(matches) > limit

\* lines 472-482: the groups that are printed, in the order of their keys
RECURSIVE PrintableRes(_, _, _)
PrintableRes(keys, dict, limit) ==
    IF keys = <<>> THEN <<>>
    ELSE (IF OverLimit(dict[Head(keys)], limit) THEN <<>> ELSE <<dict[Head(keys)]>>)
         \o PrintableRes(Tail(keys), dict, limit)

\* a slip the order could make: the groups left in the order of their keys
InsertByKeyOrder(sorted, matches) == Append(sorted, matches)

\* sorted(..., key=len) is stable: a group goes behind the groups that are
\* not longer
InsertByLen(sorted, matches) ==
    LET before == {k \in 1..Len(sorted) : Len(sorted[k]) <= Len(matches)}
        n == Cardinality(before)
    IN  SubSeq(sorted, 1, n) \o <<matches>> \o SubSeq(sorted, n + 1, Len(sorted))

\* line 485: sorted(printable_res, key=len)
RECURSIVE SortedByLen(_, _)
SortedByLen(sorted, groups) ==
    IF groups = <<>> THEN sorted
    ELSE SortedByLen(InsertByLen(sorted, Head(groups)), Tail(groups))

\* lines 487-489: the rows of every group, one line each
RECURSIVE Flatten(_)
Flatten(groups) ==
    IF groups = <<>> THEN <<>> ELSE Head(groups) \o Flatten(Tail(groups))

\* line 19, kept whole: it is never taken apart
RESULT_HEADER ==
    [header |-> "FWD_ID,REV_ID,MATCH_ID,FWD,REV,START,STOP,LENGTH,EXP"]

\* a slip the writer could make: no header line
ReportLinesWithoutHeader(dict, limit) ==
    Flatten(SortedByLen(<<>>, PrintableRes(SortedKeys(DOMAIN dict), dict, limit)))

\* lines 484-489
ReportLines(dict, limit) ==
    <<RESULT_HEADER>> \o
    Flatten(SortedByLen(<<>>, PrintableRes(SortedKeys(DOMAIN dict), dict, limit)))

\* main, lines 470-489: after the loop the report is written
WriteReport ==
    /\ pc = "aligned"
    /\ cursor > Len(bowtie_result)
    /\ report' = report \o
                 ReportLines(results, bowtie_parse_options.LIMIT_NUMBER_OF_MATCHES)
    /\ pc' = "done"
    /\ UNCHANGED <<args, config, CONFIG_REGION_KEYS, primer3_product_size,
                   primer3_insert_pos, bowtie_parse_options,
                   primer3_pair_ok_region_list, sequence_included_region,
                   exit_status, mismatch, values, significant, primer_tuple,
                   primer_dict, runtime_parameters, parsed, engine,
                   design_request, created, primer3_section, primer3_options,
                   invoked>>
    /\ UNCHANGED <<aligner, bowtie_result, cursor, results>>

(***************************************************************************)
(* A whole run of main(): a command line, a config file, two designed      *)
(* primer pairs and what bowtie answers.                                   *)
(***************************************************************************)
\* the record pairs in bowtie's output: at most MaxRecords
MaxRecords == 4

\* the empty string behind the final newline
EmptyLine ==
    [nfields |-> 0, name |-> [side |-> "", num |-> 0], ref |-> <<>>, pos |-> 0,
     pnext |-> 0, tlen |-> 0, md |-> <<>>]

\* a pair of lines for primer pair number n: a concordant alignment at pos,
\* with the mismatch encoding md on both reads
Alignment(n, pos, md) ==
    << AlignedLine(LeftName(n), Chr, pos, pos + 1, 7, md),
       AlignedLine(RightName(n), Chr, pos + 1, pos, -7, md) >>

\* a pair of lines for reads that did not align
Unaligned(n) == << UnalignedLine(LeftName(n)), UnalignedLine(RightName(n)) >>

\* pairs 0 and 1 are designed in these runs (TwoPairs); pair 2 is a name the
\* registry does not hold.  <<20>> is significant under the default
\* thresholds, <<5, 1>> is not.
RecordKinds ==
    { Alignment(0, 1, <<20>>), Alignment(0, 2, <<20>>), Alignment(1, 1, <<20>>),
      Alignment(0, 1, <<5, 1>>), Unaligned(0),
      Alignment(2, 1, <<20>>), Alignment(2, 1, <<5, 1>>) }

RECURSIVE SeqsUpTo(_, _)
SeqsUpTo(S, n) ==
    IF n = 0 THEN {<<>>}
    ELSE LET shorter == SeqsUpTo(S, n - 1)
         IN  shorter \cup {Append(q, x) : q \in {r \in shorter : Len(r) = n - 1}, x \in S}

\* bowtie's output for a list of record pairs, as run_bowtie splits it
OutputLines(pairs) == Flatten(pairs) \o <<EmptyLine>>

Succeeds(pairs) == [status |-> 0, output |-> OutputLines(pairs)]
Fails == [status |-> 1, output |-> <<>>]

\* --limit-number-of-matches on the command line; without it the default
\* holds, as in the runs of the third family below
LimitArgs == {Some(1), Some(2)}

ValidPos == <<1, 2>>
ValidSize == <<1, 2>>

PipelineArgs(size, pos, limit) ==
    [NoArgs EXCEPT !.size = size, !.pos = pos,
                   !.options = [NoOptionArgs EXCEPT !.LIMIT_NUMBER_OF_MATCHES = limit]]

NoConfig == [k \in RegionKeyNames \cup OptionKeyNames |-> Absent]

\* the working directory before the run: empty, or with the index of an
\* earlier run
NoFiles == {}
IndexFiles == {IndexDirectory, DefaultIndexFile}

\* lines 1039-1054, type=int: a threshold option is absent or an integer, 0
\* among them
ThresholdArgs == {None, Some(0), Some(1)}

\* a config file that sets the four thresholds
ThresholdConfig ==
    [k \in RegionKeyNames \cup OptionKeyNames |->
        IF k \in OptionKeyNames THEN Number(2) ELSE Absent]

\* the runs: bowtie answers with any records or fails; the pair that reaches
\* the default limit and the one beyond it; command lines validate_options
\* rejects; a config file with a threshold that is not a number; thresholds on
\* the command line, with and without a config file that sets them
PipelineRuns ==
    { [args |-> PipelineArgs(ValidSize, ValidPos, l), config |-> NoConfig,
       aligner |-> Succeeds(q), created |-> NoFiles] :
        l \in LimitArgs, q \in SeqsUpTo(RecordKinds, MaxRecords) }
    \cup
    { [args |-> PipelineArgs(ValidSize, ValidPos, l), config |-> NoConfig,
       aligner |-> Fails, created |-> f] :
        l \in LimitArgs, f \in {NoFiles, IndexFiles} }
    \cup
    { [args |-> PipelineArgs(ValidSize, ValidPos, None), config |-> NoConfig,
       aligner |-> Succeeds(q), created |-> IndexFiles] :
        q \in { r \in SeqsUpTo({Alignment(0, 1, <<20>>), Alignment(0, 2, <<20>>)},
                               LIMIT_NUMBER_OF_MATCHES_DEFAULT + 1) :
                Len(r) >= LIMIT_NUMBER_OF_MATCHES_DEFAULT } }
    \cup
    { [args |-> PipelineArgs(sz, ps, None), config |-> NoConfig,
       aligner |-> Succeeds(<<Alignment(0, 1, <<20>>)>>), created |-> f] :
        sz \in Coord \X Coord, ps \in Coord \X Coord, f \in {NoFiles, IndexFiles} }
    \cup
    { [args |-> PipelineArgs(ValidSize, ValidPos, None),
       config |-> [NoConfig EXCEPT ![k] = NotANumber],
       aligner |-> Succeeds(q), created |-> NoFiles] :
        k \in OptionKeyNames, q \in SeqsUpTo(RecordKinds, 1) }
    \cup
    { [args |-> [PipelineArgs(ValidSize, ValidPos, None) EXCEPT !.options = o],
       config |-> c,
       aligner |-> Succeeds(<<Alignment(0, 1, <<20>>)>>), created |-> IndexFiles] :
        o \in [OptionKeyNames -> ThresholdArgs], c \in {NoConfig, ThresholdConfig} }

InitPipeline ==
    /\ pc = "parse"
    /\ \E run \in PipelineRuns :
           /\ args = run.args
           /\ config = run.config
           /\ aligner = run.aligner
           /\ created = run.created
    /\ CONFIG_REGION_KEYS = DefaultRegionKeys
    /\ primer3_product_size = <<>>
    /\ primer3_insert_pos = <<>>
    /\ bowtie_parse_options = DefaultParseOptions
    /\ primer3_pair_ok_region_list = <<>>
    /\ sequence_included_region = <<>>
    /\ exit_status = None
    /\ mismatch = <<>>
    /\ values = <<>>
    /\ significant = "pending"
    /\ primer_tuple = <<>>
    /\ primer_dict = <<>>
    /\ runtime_parameters = DefaultRuntimeParameters
    /\ parsed = NotParsed
    /\ engine = TwoPairs
    /\ design_request = NoRequest
    /\ primer3_section = <<>>
    /\ primer3_options = <<>>
    /\ invoked = <<>>
    /\ bowtie_result = <<>>
    /\ cursor = 1
    /\ results = <<>>
    /\ report = <<>>

NextPipeline ==
    \/ ParseConfigAndParameters
    \/ ValidateOptions
    \/ ExtractSequence
    \/ GeneratePrimer
    \/ SetupBowtie
    \/ RunBowtie
    \/ ClassifyRecord
    \/ WriteReport

SpecPipeline == InitPipeline /\ [][NextPipeline]_vars

(***************************************************************************)
(* The primer3 options of a run: --primer3 on the command line and the     *)
(* [primer3] section of the config file, up to the call of the engine.     *)
(***************************************************************************)
\* --primer3 is given at most MaxOptions times
MaxOptions == 2

OptionTexts == {"20", "22", "[0, 1]", "twenty"}

OptionKeys ==
    { OptionKey("PRIMER_OPT_SIZE", TRUE), OptionKey("PRIMER_OPT_SIZE", FALSE),
      OptionKey("PRIMER_PRODUCT_SIZE_RANGE", TRUE) }

\* the section is empty or sets PRIMER_OPT_SIZE
Primer3Sections ==
    {<<>>} \cup { << <<k, t>> >> : k \in {OptionKey("PRIMER_OPT_SIZE", TRUE),
                                          OptionKey("PRIMER_OPT_SIZE", FALSE)},
                                  t \in {"20", "twenty"} }

InitOptions ==
    /\ pc = "parse"
    /\ \E given \in SeqsUpTo(OptionKeys \X OptionTexts, MaxOptions) :
           args = [PipelineArgs(ValidSize, ValidPos, None) EXCEPT !.primer3 = given]
    /\ primer3_section \in Primer3Sections
    /\ config = NoConfig
    /\ CONFIG_REGION_KEYS = DefaultRegionKeys
    /\ primer3_product_size = <<>>
    /\ primer3_insert_pos = <<>>
    /\ bowtie_parse_options = DefaultParseOptions
    /\ primer3_pair_ok_region_list = <<>>
    /\ sequence_included_region = <<>>
    /\ exit_status = None
    /\ mismatch = <<>>
    /\ values = <<>>
    /\ significant = "pending"
    /\ primer_tuple = <<>>
    /\ primer_dict = <<>>
    /\ runtime_parameters = DefaultRuntimeParameters
    /\ parsed = NotParsed
    /\ engine = TwoPairs
    /\ design_request = NoRequest
    /\ created = NoFiles
    /\ primer3_options = <<>>
    /\ invoked = <<>>
    /\ aligner = NoAligner
    /\ bowtie_result = <<>>
    /\ cursor = 1
    /\ results = <<>>
    /\ report = <<>>

NextOptions ==
    \/ ParseConfigAndParameters
    \/ ValidateOptions
    \/ ExtractSequence
    \/ GeneratePrimer

SpecOptions == InitOptions /\ [][NextOptions]_vars

(***************************************************************************)
(* What a token list says about the primer, base by base, read without the *)
(* walk: the bases in order, TRUE for a mismatching base.                  *)
(***************************************************************************)
RECURSIVE Bases(_)
Bases(vals) ==
    IF Len(vals) = 0 THEN <<>>
    ELSE (IF Head(vals).isdigit
          THEN [k \in 1..Head(vals).int |-> FALSE]
          ELSE <<TRUE>>) \o Bases(Tail(vals))

\* the number of bases the tokens cover
Covered(vals) == Len(Bases(vals))

\* the number of mismatches among the last n bases
MismatchesInLast(vals, n) ==
    LET b == Bases(vals)
    IN  Cardinality({k \in 1..Len(b) : k > Len(b) - n /\ b[k]})

LastIsDigit == Len(values) > 0 /\ FromEnd(values, 1).isdigit
LastIsAlpha == Len(values) > 0 /\ ~FromEnd(values, 1).isdigit

\* the trailing tokens pass the lastMustMatch checks
TrailingPasses ==
    \/ LastIsDigit /\ FromEnd(values, 1).int >= bowtie_parse_options.LAST_MUST_MATCH
    \/ LastIsAlpha /\ bowtie_parse_options.LAST_MUST_MATCH = 0

Evaluated == pc = "evaluated"

(***************************************************************************)
(* Claims about the evaluator (checked under SpecSig).                     *)
(***************************************************************************)
\* C4: with lastToCheck = 12 and lastMaxError = 5, tokens covering more than
\* 12 bases whose trailing tokens pass the lastMustMatch checks are significant
\* when the last 12 bases hold exactly 4 mismatches and not significant when
\* they hold 5 or more.
C4_LastTwelveBases ==
    (/\ Evaluated
     /\ bowtie_parse_options.LAST_TO_CHECK = 12
     /\ bowtie_parse_options.LAST_MAX_ERROR = 5
     /\ Covered(values) > 12
     /\ TrailingPasses)
    => /\ MismatchesInLast(values, 12) = 4 => significant = "True"
       /\ MismatchesInLast(values, 12) >= 5 => significant = "False"

\* C5: when the last token is numeric, a value below lastMustMatch is not
\* significant whatever the other tokens and thresholds are (tokens 3, A, 2
\* with lastMustMatch = 5), and a single token of at least lastMustMatch is
\* significant whatever lastToCheck and lastMaxError are.
C5_TrailingRun ==
    (Evaluated /\ LastIsDigit) =>
        /\ FromEnd(values, 1).int < bowtie_parse_options.LAST_MUST_MATCH
               => significant = "False"
        /\ (/\ Len(values) = 1
            /\ FromEnd(values, 1).int >= bowtie_parse_options.LAST_MUST_MATCH)
               => significant = "True"
        /\ (/\ values = <<DigitToken(3), AlphaToken, DigitToken(2)>>
            /\ bowtie_parse_options.LAST_MUST_MATCH = 5)
               => significant = "False"

C5_Witness ==
    /\ Evaluated
    /\ values = <<DigitToken(3), AlphaToken, DigitToken(2)>>
    /\ bowtie_parse_options.LAST_MUST_MATCH = 5
    /\ significant = "False"

\* C6: when the last token is a mismatch character, every lastMustMatch # 0
\* gives "not significant"; with lastMustMatch = 0 the mismatch-counting walk
\* decides: it counts the mismatches it passes before basesProcessed exceeds
\* lastToCheck, and fails when the tokens end before that.
C6_TrailingMismatch ==
    (Evaluated /\ LastIsAlpha) =>
        /\ bowtie_parse_options.LAST_MUST_MATCH # 0 => significant = "False"
        /\ bowtie_parse_options.LAST_MUST_MATCH = 0 =>
               significant =
                   IF Covered(values) <= bowtie_parse_options.LAST_TO_CHECK
                   THEN "IndexError"
                   ELSE IF MismatchesInLast(values,
                               bowtie_parse_options.LAST_TO_CHECK + 1)
                           < bowtie_parse_options.LAST_MAX_ERROR
                        THEN "True" ELSE "False"

C6_Witness ==
    /\ Evaluated
    /\ LastIsAlpha
    /\ Len(values) > 1
    /\ bowtie_parse_options.LAST_MUST_MATCH # 0
    /\ significant = "False"

(***************************************************************************)
(* Claims about the region solver (checked under SpecRegion).              *)
(***************************************************************************)
\* the target position and the size range the user gave: the command line
\* value when there is one, otherwise the two keys of the config file
HasSize ==
    \/ args.size # None
    \/ /\ config.PRIMER_PRODUCT_SIZE_MIN.kind = "int"
       /\ config.PRIMER_PRODUCT_SIZE_MAX.kind = "int"

HasPos ==
    \/ args.pos # None
    \/ /\ config.TARGET_POSITION_BEGIN.kind = "int"
       /\ config.TARGET_POSITION_END.kind = "int"

GivenSize ==
    IF args.size # None THEN args.size
    ELSE <<config.PRIMER_PRODUCT_SIZE_MIN.int, config.PRIMER_PRODUCT_SIZE_MAX.int>>

GivenPos ==
    IF args.pos # None THEN args.pos
    ELSE <<config.TARGET_POSITION_BEGIN.int, config.TARGET_POSITION_END.int>>

Validated == pc \in {"validated", "extracted", "designed"}
Rejected == pc = "exit" /\ exit_status = Some(1)
AfterValidate == pc \in {"validated", "extracted", "designed", "exit"}

NoRegionComputed ==
    /\ primer3_pair_ok_region_list = <<>>
    /\ sequence_included_region = <<>>
    /\ design_request = NoRequest

\* C1: for every accepted (target, size) the pair-ok-region list is
\* (end - max, max - (end - begin), end, max - (end - begin)), its two window
\* lengths are equal, and the design engine receives the inclusion window
\* (leftStart, (end + overlap) - leftStart); the scenario (100,150), (200,300)
\* gives leftStart -150, overlap 250 and window length 550.
C1_RegionGeometry ==
    Validated =>
        LET begin == GivenPos[1]
            end == GivenPos[2]
            max == GivenSize[2]
            leftStart == end - max
            overlap == max - (end - begin)
        IN  /\ HasPos /\ HasSize
            /\ primer3_pair_ok_region_list = <<leftStart, overlap, end, overlap>>
            /\ primer3_pair_ok_region_list[2] = primer3_pair_ok_region_list[4]
            /\ pc = "designed" =>
                   /\ design_request.SEQUENCE_INCLUDED_REGION =
                          <<leftStart, (end + overlap) - leftStart>>
                   /\ design_request.SEQUENCE_PRIMER_PAIR_OK_REGION_LIST =
                          <<leftStart, overlap, end, overlap>>
            /\ (GivenPos = <<100, 150>> /\ GivenSize = <<200, 300>>) =>
                   /\ primer3_pair_ok_region_list = <<-150, 250, 150, 250>>
                   /\ pc = "designed" =>
                          design_request.SEQUENCE_INCLUDED_REGION = <<-150, 550>>

C1_Witness ==
    /\ pc = "designed"
    /\ args.pos = <<100, 150>>
    /\ args.size = <<200, 300>>
    /\ design_request.SEQUENCE_INCLUDED_REGION = <<-150, 550>>

\* C2: a (target, size) that violates size.min < size.max, target.begin <
\* target.end or target.end - target.begin <= size.min ends the run with exit
\* status 1 and no region is computed.
C2_InvalidRejected ==
    (/\ AfterValidate
     /\ \/ HasSize /\ ~(GivenSize[1] < GivenSize[2])
        \/ HasPos /\ ~(GivenPos[1] < GivenPos[2])
        \/ HasSize /\ HasPos /\ ~(GivenPos[2] - GivenPos[1] <= GivenSize[1]))
    => (Rejected /\ NoRegionComputed)

\* an insert one base longer than size.min, everything else in order
C2_Witness ==
    /\ Rejected
    /\ HasSize /\ HasPos
    /\ GivenSize[1] < GivenSize[2]
    /\ GivenPos[1] < GivenPos[2]
    /\ GivenPos[2] - GivenPos[1] = GivenSize[1] + 1

\* C3: every configuration with 0 <= begin < end, 0 < min < max and
\* end - begin <= min is accepted and produces regions, from the command line
\* as from the [default] config section, begin = 0 included.
C3_ValidAccepted ==
    (/\ AfterValidate
     /\ HasSize /\ HasPos
     /\ 0 <= GivenPos[1] /\ GivenPos[1] < GivenPos[2]
     /\ 0 < GivenSize[1] /\ GivenSize[1] < GivenSize[2]
     /\ GivenPos[2] - GivenPos[1] <= GivenSize[1])
    => (/\ Validated
        /\ primer3_pair_ok_region_list # <<>>
        /\ sequence_included_region # <<>>)

(***************************************************************************)
(* Claims about the classifier (checked under SpecClassify).               *)
(***************************************************************************)
Classified == pc = "classified"
Hit == parsed.outcome = "hit"
Row == parsed.res[1]
ForwardLine == primer_tuple[1]
ReverseLine == primer_tuple[2]

ForwardSignificance ==
    is_significant(Tokens(ForwardLine.md), bowtie_parse_options)
ReverseSignificance ==
    is_significant(Tokens(ReverseLine.md), bowtie_parse_options)

\* C7: a hit is produced only if the forward line's tokens and the reverse
\* line's tokens are both significant; when either is not, there is no hit.
C7_BothSidesSignificant ==
    Classified =>
        /\ Hit => (ForwardSignificance = "True" /\ ReverseSignificance = "True")
        /\ (/\ ~TooShort(ForwardLine) /\ ~TooShort(ReverseLine)
            /\ \/ ForwardSignificance = "False"
               \/ ForwardSignificance = "True" /\ ReverseSignificance = "False")
           => (parsed.outcome = "None" /\ parsed.res = <<>>)

\* the forward side is significant, the reverse side is not, the pair is
\* registered: no hit
C7_Witness ==
    /\ Classified
    /\ ~TooShort(ForwardLine) /\ ~TooShort(ReverseLine)
    /\ ForwardSignificance = "True"
    /\ ReverseSignificance = "False"
    /\ SortedPair(ForwardLine.name, ReverseLine.name) \in DOMAIN primer_dict
    /\ parsed.outcome = "None"

\* C8: with additional_fasta every hit carries expected flag 0, whatever its
\* reference id, start, stop, the window and keep_primer.
C8_AdditionalSourceNeverExpected ==
    (Classified /\ Hit /\ runtime_parameters.additional_fasta) => Row.EXP = 0

\* a hit inside the window on the expected sequence, still flagged 0
C8_Witness ==
    /\ Classified /\ Hit
    /\ runtime_parameters.additional_fasta
    /\ ForwardLine.ref = runtime_parameters.seq_id
    /\ sequence_included_region[1] <= ForwardLine.pos
    /\ ForwardLine.pos <= ForwardLine.pnext
    /\ ForwardLine.pnext <= sequence_included_region[2]
    /\ Row.EXP = 0

\* C9: without additional_fasta a hit is flagged expected exactly when
\* window start <= start <= aligner-reported end <= window end and its
\* reference id matches the expected id: by prefix with keep_primer, by
\* equality in a design run.
C9_ExpectedRule ==
    (Classified /\ Hit /\ ~runtime_parameters.additional_fasta) =>
        (Row.EXP = 1 <=>
            /\ sequence_included_region[1] <= Row.START
            /\ Row.START <= ForwardLine.pnext
            /\ ForwardLine.pnext <= sequence_included_region[2]
            /\ IF runtime_parameters.keep_primer
               THEN /\ Len(runtime_parameters.seq_id) <= Len(Row.MATCH_ID)
                    /\ \A k \in 1..Len(runtime_parameters.seq_id) :
                           Row.MATCH_ID[k] = runtime_parameters.seq_id[k]
               ELSE Row.MATCH_ID = runtime_parameters.seq_id)

\* preset primers, a reference id that only starts with the expected id
C9_Witness ==
    /\ Classified /\ Hit
    /\ ~runtime_parameters.additional_fasta
    /\ runtime_parameters.keep_primer
    /\ runtime_parameters.seq_id # <<>>
    /\ Row.MATCH_ID # runtime_parameters.seq_id
    /\ Row.EXP = 1

\* C10: STOP is field 7 of the forward line plus the length of the reverse
\* primer registered for the pair; START and LENGTH are fields 3 and 8 of
\* the forward line.
C10_StopStartLength ==
    (Classified /\ Hit) =>
        /\ Row.STOP = ForwardLine.pnext + Len(primer_dict[parsed.key][2])
        /\ Row.START = ForwardLine.pos
        /\ Row.LENGTH = ForwardLine.tlen

\* the two primers differ in length and the two lines differ in fields 3, 7, 8
C10_Witness ==
    /\ Classified /\ Hit
    /\ Len(primer_dict[parsed.key][1]) # Len(primer_dict[parsed.key][2])
    /\ ForwardLine.pos # ReverseLine.pos
    /\ ForwardLine.tlen # ReverseLine.tlen
    /\ Row.STOP = ForwardLine.pnext + Len(Row.REV)

(***************************************************************************)
(* The report, read against bowtie's records without the loop of main():   *)
(* what each record pair classifies as, and the rows that carry a key.     *)
(***************************************************************************)
Done == pc = "done"
Crashed == pc = "crash"

Limit == bowtie_parse_options.LIMIT_NUMBER_OF_MATCHES

\* what record pair number i of bowtie's answer classifies as
ClassifiedAs(i) ==
    ParseBowtieResult(bowtie_result[i], primer_dict, sequence_included_region,
                      runtime_parameters.additional_fasta,
                      runtime_parameters.seq_id,
                      runtime_parameters.keep_primer, bowtie_parse_options)

IsHit(i) == ClassifiedAs(i).outcome = "hit"

\* the pair ids a record can name
PairIds == { SortedPair(LeftName(n), RightName(n)) : n \in 0..2 }

\* the record pairs that are hits of a pair id
HitsOf(id) ==
    { i \in 1..Len(bowtie_result) : IsHit(i) /\ ClassifiedAs(i).key = id }

\* the lines of the report behind the first one, and the pair id of a row
RowPositions == 2..Len(report)
RowId(k) == SortedPair(report[k].FWD_ID, report[k].REV_ID)
RowsOf(id) == { k \in RowPositions : RowId(k) = id }

\* how many hits, and how many report rows, are the row r
HitCount(r) ==
    Cardinality({ i \in 1..Len(bowtie_result) : IsHit(i) /\ ClassifiedAs(i).res[1] = r })
RowCount(r) == Cardinality({ k \in RowPositions : report[k] = r })

Survives(id) == HitsOf(id) # {} /\ Cardinality(HitsOf(id)) <= Limit

\* C11: in the report a pair id with more than LIMIT_NUMBER_OF_MATCHES
\* classified hits has no row at all, and a pair id with at least one and at
\* most LIMIT_NUMBER_OF_MATCHES hits has all of its rows.
C11_MatchLimit ==
    Done =>
        \A id \in PairIds :
            /\ Cardinality(HitsOf(id)) > Limit => RowsOf(id) = {}
            /\ Survives(id) =>
                   /\ Cardinality(RowsOf(id)) = Cardinality(HitsOf(id))
                   /\ \A i \in HitsOf(id) : RowCount(ClassifiedAs(i).res[1]) >= 1

\* one pair id is over the limit and another has exactly as many hits as the
\* limit allows
C11_Witness ==
    /\ Done
    /\ \E over \in PairIds, full \in PairIds :
           /\ Cardinality(HitsOf(over)) > Limit
           /\ RowsOf(over) = {}
           /\ Cardinality(HitsOf(full)) = Limit
           /\ RowsOf(full) # {}

\* C12: the groups are written in order of ascending hit count, the rows of
\* one group next to each other.
C12_AscendingGroups ==
    Done =>
        /\ \A j \in RowPositions, k \in RowPositions :
               j < k => Cardinality(RowsOf(RowId(j))) <= Cardinality(RowsOf(RowId(k)))
        /\ \A j \in RowPositions, k \in RowPositions, m \in RowPositions :
               (j < m /\ m < k /\ RowId(j) = RowId(k)) => RowId(m) = RowId(j)

\* the pair id that sorts first has more hits than the other and is written
\* behind it
C12_Witness ==
    /\ Done
    /\ \E j \in RowPositions, k \in RowPositions :
           /\ j < k
           /\ RowId(j) # RowId(k)
           /\ KeyLeq(RowId(k), RowId(j))
           /\ Cardinality(RowsOf(RowId(j))) < Cardinality(RowsOf(RowId(k)))

\* C13: the report is the header, written first and once (also without any
\* hit), and then one row for every classified hit of every surviving
\* group: no such hit is lost, and there is no row for a record pair that is
\* no hit or for a pair id without hits.
C13_HeaderAndRows ==
    Done =>
        /\ Len(report) >= 1
        /\ report[1] = RESULT_HEADER
        /\ \A k \in RowPositions : report[k] # RESULT_HEADER
        /\ \A k \in RowPositions : HitCount(report[k]) >= 1
        /\ \A i \in 1..Len(bowtie_result) :
               IsHit(i) =>
                   RowCount(ClassifiedAs(i).res[1]) =
                       IF Survives(ClassifiedAs(i).key)
                       THEN HitCount(ClassifiedAs(i).res[1]) ELSE 0
        /\ \A id \in PairIds : HitsOf(id) = {} => RowsOf(id) = {}

\* a run with a hit that is reported and a record pair that is no hit
C13_Witness ==
    /\ Done
    /\ Len(report) > 1
    /\ \E i \in 1..Len(bowtie_result) : ~IsHit(i)
    /\ \E id \in PairIds : HitsOf(id) = {}

\* C14: a classified hit that bowtie reports more than once is counted once
\* and is in the report at most once.
C14_Deduplicated ==
    Done =>
        \A j \in RowPositions, k \in RowPositions : j < k => report[j] # report[k]

(***************************************************************************)
(* The record pairs read without parse_bowtie_result: a line with fewer    *)
(* than 13 fields, the outcome of the two evaluations, the pair named.     *)
(***************************************************************************)
FewerThan13Fields(line) == line.nfields < 13

NoAlignment(i) ==
    FewerThan13Fields(bowtie_result[i][1]) \/ FewerThan13Fields(bowtie_result[i][2])

SignificanceOf(i) ==
    BothSignificant(Tokens(bowtie_result[i][1].md), Tokens(bowtie_result[i][2].md),
                    bowtie_parse_options)

NotSignificant(i) == ~NoAlignment(i) /\ SignificanceOf(i) = "False"
Significant(i) == ~NoAlignment(i) /\ SignificanceOf(i) = "True"

AbsentPair(i) ==
    SortedPair(bowtie_result[i][1].name, bowtie_result[i][2].name)
        \notin DOMAIN primer_dict

\* the rows collected so far
RECURSIVE Collected(_)
Collected(ids) ==
    IF ids = {} THEN 0
    ELSE LET id == CHOOSE x \in ids : TRUE
         IN  Len(results[id]) + Collected(ids \ {id})

\* C15: a record pair with a line of fewer than 13 fields, or one that is
\* not significant, gives no hit and raises nothing: the loop goes on to the
\* next record pair, collects nothing for it, and a significant record pair
\* behind it is still reported.
C15_NoHitContinues ==
    /\ \A i \in 1..Len(bowtie_result) :
           (NoAlignment(i) \/ NotSignificant(i)) =>
               /\ ClassifiedAs(i).outcome = "None"
               /\ ~(Crashed /\ cursor = i)
    /\ pc \in {"aligned", "done", "crash"} =>
           Collected(DOMAIN results) =
               Cardinality({ i \in 1..(cursor - 1) : Significant(i) })
    /\ Done =>
           \A i \in 1..Len(bowtie_result), j \in 1..Len(bowtie_result) :
               ( /\ i < j
                 /\ NoAlignment(i) \/ NotSignificant(i)
                 /\ IsHit(j)
                 /\ Survives(ClassifiedAs(j).key) ) =>
                   RowCount(ClassifiedAs(j).res[1]) >= 1

\* an unaligned record pair and one that is not significant, and behind both
\* a hit that is in the report
C15_Witness ==
    /\ Done
    /\ \E i \in 1..Len(bowtie_result), j \in 1..Len(bowtie_result),
          k \in 1..Len(bowtie_result) :
           /\ i < k /\ j < k
           /\ NoAlignment(i)
           /\ NotSignificant(j)
           /\ IsHit(k)
           /\ RowCount(ClassifiedAs(k).res[1]) = 1

\* C16 as stated: a record pair that names a primer pair absent from the
\* registry ends the run in a fatal error; the loop does not get past it and
\* no report is written.
C16_AbsentPairFatal ==
    \A i \in 1..Len(bowtie_result) :
        AbsentPair(i) => (cursor <= i /\ ~Done /\ report = <<>>)

\* C16, amended: a record pair with 13 or more fields on both lines and both
\* sides significant that names a primer pair absent from the registry ends
\* the run in a fatal error: the loop stops at it with an exception, nothing
\* is collected for it and no report is written.
C16_SignificantAbsentPairFatal ==
    \A i \in 1..Len(bowtie_result) :
        (Significant(i) /\ AbsentPair(i)) =>
            /\ cursor <= i
            /\ ~Done
            /\ report = <<>>
            /\ SortedPair(bowtie_result[i][1].name, bowtie_result[i][2].name)
                   \notin DOMAIN results
            /\ (cursor = i /\ pc # "aligned") =>
                   (Crashed /\ exit_status = Some(1) /\ parsed.outcome = "TypeError")

\* the run stopped at such a record pair, behind a hit that was collected
C16_Witness ==
    /\ Crashed
    /\ parsed.outcome = "TypeError"
    /\ Significant(cursor) /\ AbsentPair(cursor)
    /\ results # <<>>
    /\ report = <<>>

\* C17: when bowtie exits with a status that is not zero the run ends with
\* exit status 1: bowtie was called once, no record pair is classified and
\* nothing is written to the report.
C17_AlignerFailureAborts ==
    aligner.status # 0 =>
        /\ Cardinality({ k \in 1..Len(invoked) : invoked[k] = "bowtie" }) <= 1
        /\ pc \notin {"aligned", "done", "crash"}
        /\ (\E k \in 1..Len(invoked) : invoked[k] = "bowtie") =>
               (pc = "exit" /\ exit_status = Some(1))
        /\ bowtie_result = <<>>
        /\ parsed = NotParsed
        /\ results = <<>>
        /\ report = <<>>

\* bowtie was called and failed
C17_Witness ==
    /\ aligner.status # 0
    /\ pc = "exit"
    /\ exit_status = Some(1)
    /\ invoked[Len(invoked)] = "bowtie"
    /\ report = <<>>

\* C18: when validate_options rejects the configuration the run ends before
\* the design engine, the index builder or bowtie is called, and nothing is
\* left behind: no primer file, no index directory, no report.
C18_NoPartialWork ==
    [][(pc = "validate" /\ pc' = "exit") =>
           (created' = created /\ invoked' = <<>> /\ report' = <<>>)]_vars

\* the config file gives a significance threshold that is not a number
NonNumericThreshold ==
    \E k \in {"LAST_MUST_MATCH", "LAST_TO_CHECK", "LAST_MAX_ERROR"} :
        config[k] = NotANumber

\* C19: with a significance threshold in the config file that is not a
\* number the run ends before any external tool is called.
C19_NonNumericThresholdFatal ==
    NonNumericThreshold => (invoked = <<>> /\ ~Done)

\* C20: every option key given with --primer3 and a value that parses is
\* mapped to that value in the options handed to the design engine, whatever
\* the [primer3] section of the config file says (of a key given twice, the
\* value given last).
C20_CommandLineWins ==
    pc = "designed" =>
        \A i \in 1..Len(args.primer3) :
            LET key == args.primer3[i][1]
                value == LiteralEval(args.primer3[i][2])
            IN  ( /\ value.ok
                  /\ \A j \in (i + 1)..Len(args.primer3) : args.primer3[j][1] # key ) =>
                    /\ key \in DOMAIN design_request.P3Globals
                    /\ design_request.P3Globals[key] =
                           [type |-> value.type, items |-> value.items]

\* the same call with the other provenance of the primers: keep_primer negated
OtherProvenance ==
    ParseBowtieResult(primer_tuple, primer_dict, sequence_included_region,
        runtime_parameters.additional_fasta, runtime_parameters.seq_id,
        ~runtime_parameters.keep_primer, bowtie_parse_options)

\* a result with the expected flag blanked
WithoutExp(res) == [k \in 1..Len(res) |-> [res[k] EXCEPT !.EXP = 0]]

\* C21: for the same record pair, registry, window, expected id and
\* thresholds, parse_bowtie_result with keep_primer true and with keep_primer
\* false gives the same outcome, the same pair key and the same record
\* fields other than EXP.
C21_ProvenanceOnlyInExpected ==
    Classified =>
        /\ parsed.outcome = OtherProvenance.outcome
        /\ parsed.key = OtherProvenance.key
        /\ WithoutExp(parsed.res) = WithoutExp(OtherProvenance.res)

\* a hit whose expected flag does depend on the provenance, the names given
\* in the order (reverse, forward)
C21_Witness ==
    /\ Classified /\ Hit
    /\ OtherProvenance.outcome = "hit"
    /\ Row.EXP # OtherProvenance.res[1].EXP
    /\ ForwardLine.name = RightName(0)

\* the same call with the two lines of the pair in the other order
OtherOrder ==
    ParseBowtieResult(<<ReverseLine, ForwardLine>>, primer_dict,
        sequence_included_region, runtime_parameters.additional_fasta,
        runtime_parameters.seq_id, runtime_parameters.keep_primer,
        bowtie_parse_options)

\* both lines carry an alignment and both are significant
SignificantPair ==
    /\ ~TooShort(ForwardLine) /\ ~TooShort(ReverseLine)
    /\ ForwardSignificance = "True" /\ ReverseSignificance = "True"

\* C22: for a significant record pair the key is the sorted pair of the two
\* names; the lines in the order (forward, reverse) and (reverse, forward)
\* give the same key and find the same registry entry, so a pair the registry
\* holds is a hit under one key, the key its group in the results has.
C22_SortedPairKey ==
    (Classified /\ SignificantPair) =>
        LET key == SortedPair(ForwardLine.name, ReverseLine.name)
        IN  /\ parsed.outcome = OtherOrder.outcome
            /\ parsed.key = OtherOrder.key
            /\ Hit <=> key \in DOMAIN primer_dict
            /\ Hit => /\ parsed.key = key
                      /\ NameLeq(parsed.key[1], parsed.key[2])
                      /\ Row.FWD = primer_dict[key][1]
                      /\ OtherOrder.res[1].FWD = Row.FWD
                      /\ OtherOrder.res[1].REV = Row.REV

\* the lines come as (reverse, forward) and the pair is found under the key
\* (forward, reverse)
C22_Witness ==
    /\ Classified /\ Hit /\ SignificantPair
    /\ ForwardLine.name = RightName(0) /\ ReverseLine.name = LeftName(0)
    /\ parsed.key = <<LeftName(0), RightName(0)>>
    /\ OtherOrder.outcome = "hit"

\* C23: for an empty token sequence the evaluation returns a boolean:
\* significant if lastMustMatch = 0, not significant if lastMustMatch > 0.
C23_EmptyTokensDecided ==
    (Evaluated /\ values = <<>>) =>
        significant = IF bowtie_parse_options.LAST_MUST_MATCH = 0
                      THEN "True" ELSE "False"

\* the bases covered by the tokens behind the j-th token from the end
BasesBehind(vals, j) == Covered(SubSeq(vals, Len(vals) - j + 2, Len(vals)))

\* the mismatch tokens the walk is to count: those with at most lastToCheck
\* bases behind them
CountedMismatches(vals, last_to_check) ==
    { j \in 1..Len(vals) :
        ~FromEnd(vals, j).isdigit /\ BasesBehind(vals, j) <= last_to_check }

\* the trailing checks pass and do not decide: the walk is entered
WalkEntered ==
    /\ TrailingPasses
    /\ ~(LastIsDigit /\ Len(values) = 1)

C26_AlwaysBoolean ==
    (Evaluated /\ values # <<>>) => significant \in {"True", "False"}

\* bowtie ran and its output was grouped
Grouped == pc \in {"aligned", "done", "crash"}

\* C25: bowtie's output of 2n record lines and a final newline is grouped
\* into exactly n tuples, the k-th one (counted from 1) made of the lines
\* 2k - 1 and 2k: every record line is in one tuple, in the order of the
\* output.
C25_ConsecutivePairs ==
    Grouped =>
        /\ 2 * Len(bowtie_result) + 1 = Len(aligner.output)
        /\ \A k \in 1..Len(bowtie_result) :
               /\ bowtie_result[k][1] = aligner.output[2 * k - 1]
               /\ bowtie_result[k][2] = aligner.output[2 * k]
        /\ Flatten(bowtie_result) \o <<EmptyLine>> = aligner.output

\* an output of at least three pairs, the lines of the second pair different
\* from those of the first and the third
C25_Witness ==
    /\ pc = "aligned"
    /\ Len(bowtie_result) >= 3
    /\ bowtie_result[2][1] # bowtie_result[1][1]
    /\ bowtie_result[2][1] # bowtie_result[3][1]
    /\ bowtie_result[2] = <<aligner.output[3], aligner.output[4]>>

\* the two windows of the pair-ok-region list as [start, end)
LeftWindow ==
    <<primer3_pair_ok_region_list[1],
      primer3_pair_ok_region_list[1] + primer3_pair_ok_region_list[2]>>
RightWindow ==
    <<primer3_pair_ok_region_list[3],
      primer3_pair_ok_region_list[3] + primer3_pair_ok_region_list[4]>>

\* C27: for every accepted (target, size) the left window ends at
\* target.begin, the right window starts at target.end, neither is empty, the
\* two are disjoint and both lie inside the inclusion window
\* [leftStart, target.end + overlap).
C27_WindowsFlankTarget ==
    Validated =>
        /\ LeftWindow[1] < LeftWindow[2]
        /\ LeftWindow[2] = GivenPos[1]
        /\ RightWindow[1] = GivenPos[2]
        /\ RightWindow[1] < RightWindow[2]
        /\ LeftWindow[2] <= RightWindow[1]
        /\ sequence_included_region[1] <= LeftWindow[1]
        /\ RightWindow[2] <= sequence_included_region[2]
        /\ sequence_included_region = <<LeftWindow[1], RightWindow[2]>>

\* the scenario's target (100, 150) with sizes (200, 300): the windows are
\* [-150, 100) and [150, 400)
C27_Witness ==
    /\ pc = "validated"
    /\ GivenPos = <<100, 150>>
    /\ LeftWindow = <<-150, 100>>
    /\ RightWindow = <<150, 400>>
    /\ sequence_included_region = <<-150, 400>>

\* the sequence the registry holds for a primer name: the entry of the pair
\* is (left sequence, right sequence)
RegisteredSequence(name) ==
    LET key == SortedPair(ForwardLine.name, ReverseLine.name)
    IN  IF name.side = "LEFT" THEN primer_dict[key][1] ELSE primer_dict[key][2]

\* C28: in every row FWD is the sequence registered for the primer named in
\* FWD_ID and REV the sequence registered for the primer named in REV_ID,
\* whichever of the two lines of the pair comes first.
C28_SequencesMatchIds ==
    (Classified /\ Hit) =>
        /\ Row.FWD = RegisteredSequence(Row.FWD_ID)
        /\ Row.REV = RegisteredSequence(Row.REV_ID)

\* C29: a row flagged expected has its START and its emitted STOP (the stop
\* extended by the reverse primer's length) inside the inclusion window.
C29_ExpectedRowInsideWindow ==
    (Classified /\ Hit /\ Row.EXP = 1) =>
        /\ sequence_included_region[1] <= Row.START
        /\ Row.START <= Row.STOP
        /\ Row.STOP <= sequence_included_region[2]

\* C30: a threshold given on the command line as an integer v >= 0 is the
\* value the run uses, whatever the config file and the defaults say, for
\* v = 0 as for any other value.
C30_CommandLineThresholdUsed ==
    pc # "parse" =>
        \A k \in OptionKeyNames :
            args.options[k] # None =>
                bowtie_parse_options[k] = args.options[k][1]
====
